---------------------------- MODULE Spec2Model ----------------------------
(***************************************************************************)
(* Fruit Jam Euclidean sequencer: the Euclidean rhythm generator           *)
(* (euclidean.py), the RhythmRing parameter setters, the tick arithmetic   *)
(* and the USB MIDI event loop of main() (code.py), the USB descriptor      *)
(* parser (sb_usb_descriptor.py).                                          *)
(*                                                                         *)
(* A rhythm string is a sequence of the one-character strings "x" and ".". *)
(* A group (an item of group1 / group2) is such a sequence as well, and    *)
(* str.join is concatenation of the groups in order.                       *)
(***************************************************************************)
EXTENDS Integers, Sequences, FiniteSets, TLC

VARIABLES
    \* --- one call of gen_rhythm(beats, hits, shift), followed step by step
    gen_pc,     \* "args" | "recurse" | "return" | "done"
    beats,      \* argument beats
    hits,       \* argument hits
    shift,      \* argument shift
    group1,     \* argument group1 of the current call of recurse()
    group2,     \* argument group2 of the current call of recurse()
    r,          \* the string returned by the chain of recurse() calls
    out,        \* the value gen_rhythm returned
    \* --- elapsed_ms(t1, t2)
    e_t1,       \* argument t1
    e_t2,       \* argument t2
    e_out,      \* the value returned, or -1 before the call
    \* --- main(): the RhythmRing instance
    _beats,     \* ring._beats
    _hits,      \* ring._hits
    _shift,     \* ring._shift
    _bpm,       \* ring._bpm
    rhythm,     \* ring.rhythm
    drawn,      \* the rhythm drawn on the bitmap by the last ring.refresh()
    \* --- main(): the scan / connect / event loop
    pc,         \* "scanning" | "candidate" | "found" | "loop" | "terminated"
    device_cache, \* local device_cache of main(): the devices the scan has seen
    scan_r,     \* local r of main(): the ScanResult (a device), or None
    dev,        \* local dev of main(): the device of the MIDIInputDevice, or None
    err,        \* the exception the last step raised, or "none"
    trail,      \* the stages the current connection attempt has passed, in order
    t1,         \* local t1 of main()
    t2,         \* local t2 of main()
    ticks,      \* the value supervisor.ticks_ms() returned last
    refreshed,  \* whether the last loop iteration called display refresh()
    cin,        \* locals cin, chan, num, val of main()
    chan,
    num,
    val,
    sink,       \* the calls the synthesizer received: press, release, release_all
    evlog,      \* the MIDI packets the event loop has polled so far, in order
    \* --- sb_usb_descriptor.py: one call of split_desc, Descriptor(device)
    \* --- or Descriptor.read_configuration
    desc_pc,    \* "idle" | "args" | "split" | "init" | "read" | "endpoints"
    data,       \* the bytes the device wrote into the buffer of get_desc
    slices,     \* the value split_desc returned
    fields,     \* the fields Descriptor.__init__ assigned from the device descriptor
    config_desc_list, \* self.config_desc_list
    configs,    \* self.configs
    interfaces, \* self.interfaces
    desc_err,   \* the message of the ValueError raised, or "none"
    ep_arg,     \* argument interface of input_endpoints / output_endpoints
    in_eps,     \* the value input_endpoints(ep_arg) returned
    out_eps     \* the value output_endpoints(ep_arg) returned

gen_vars  == <<gen_pc, beats, hits, shift, group1, group2, r, out>>
tick_vars == <<e_t1, e_t2, e_out>>
ring_vars == <<_beats, _hits, _shift, _bpm, rhythm, drawn>>
conn_vars == <<device_cache, scan_r, dev, trail>>
loop_vars == <<pc, err, conn_vars, t1, t2, ticks, refreshed, cin, chan, num, val, sink, evlog>>
ep_vars   == <<ep_arg, in_eps, out_eps>>
desc_vars == <<desc_pc, data, slices, fields, config_desc_list, configs, interfaces, desc_err, ep_vars>>
vars      == <<gen_vars, tick_vars, ring_vars, loop_vars, desc_vars>>

-----------------------------------------------------------------------------
(* Python helpers *)

Min(a, b) == IF a < b THEN a ELSE b
Max(a, b) == IF a > b THEN a ELSE b

\* [sym] * n : a list of n copies of the one-character group sym, empty when n <= 0
Rep(sym, n) == [i \in 1..n |-> sym]

\* s[lo:hi] for 0 <= lo and 0 <= hi
PySlice(s, lo, hi) == SubSeq(s, Min(lo, Len(s)) + 1, Min(hi, Len(s)))

\* ''.join(groups)
RECURSIVE Join(_)
Join(groups) ==
    IF groups = <<>> THEN <<>> ELSE Head(groups) \o Join(Tail(groups))

HIT  == "x"
REST == "."

\* beats is clipped to 1..16 by the ring, and the trace loops of euclidean.py
\* stop at 16 beats
MaxBeats == 16

-----------------------------------------------------------------------------
(* euclidean.py: gen_rhythm and its inner function recurse *)

\* for i in range(n): group1[i] = group1[i] + group2[i]
Pair(g1, g2, n) ==
    [i \in 1..Len(g1) |-> IF i <= n THEN g1[i] \o g2[i] ELSE g1[i]]

BaseCaseOnePass(g1, g2) ==
    \/ Len(g1) = 0
    \/ Len(g2) = 0
    \/ Len(g2) <= Len(g1)

BaseCaseShortRemainder(g1, g2) ==
    \/ Len(g1) = 0
    \/ Len(g2) = 0
    \/ Len(g2) = Len(g1)
    \/ Len(g2) = 1

\* The three base cases of recurse(): len1 == 0, len2 == 0, len2 == len1
BaseCase(g1, g2) ==
    \/ Len(g1) = 0
    \/ Len(g2) = 0
    \/ Len(g2) = Len(g1)

RecurseResultNoRests(g1, g2) ==
    IF Len(g1) = 0 THEN Join(g1)
    ELSE IF Len(g2) = 0 THEN Join(g1)
    ELSE Join(Pair(g1, g2, Len(g2)))

\* What recurse() returns in a base case
RecurseResult(g1, g2) ==
    IF Len(g1) = 0 THEN Join(g2)
    ELSE IF Len(g2) = 0 THEN Join(g1)
    ELSE Join(Pair(g1, g2, Len(g2)))

RecurseArgsLostGroup(g1, g2) ==
    LET len1 == Len(g1)
        len2 == Len(g2)
    IN  IF len2 <= len1
        THEN LET p == Pair(g1, g2, len2)
             IN  <<PySlice(p, 0, len2), PySlice(p, len2 + 1, len1)>>
        ELSE <<Pair(g1, g2, len1), PySlice(g2, len1, len2)>>

RecurseArgsUnevenSplit(g1, g2) ==
    LET len1 == Len(g1)
        len2 == Len(g2)
    IN  IF len2 <= len1
        THEN LET p == Pair(g1, g2, len2)
             IN  <<PySlice(p, 0, len2), PySlice(p, len2, len1)>>
        ELSE <<Pair(g1, g2, 1), PySlice(g2, 1, len2)>>

\* The arguments <<group1, group2>> of the recursive call recurse() makes in
\* its two recursive cases (len2 < len1, and len2 > len1)
RecurseArgs(g1, g2) ==
    LET len1 == Len(g1)
        len2 == Len(g2)
    IN  IF len2 <= len1
        THEN LET p == Pair(g1, g2, len2)
             IN  <<PySlice(p, 0, len2), PySlice(p, len2, len1)>>
        ELSE <<Pair(g1, g2, len1), PySlice(g2, len1, len2)>>

RECURSIVE recurse(_, _)
recurse(g1, g2) ==
    IF BaseCase(g1, g2)
    THEN RecurseResult(g1, g2)
    ELSE recurse(RecurseArgs(g1, g2)[1], RecurseArgs(g1, g2)[2])

ShiftedRight(res, b, s) ==
    IF s > 0
    THEN LET k == s % b
         IN  PySlice(res, Len(res) - k, Len(res)) \o PySlice(res, 0, Len(res) - k)
    ELSE res

\* The tail of gen_rhythm: res is what recurse() returned
Shifted(res, b, s) ==
    IF s > 0
    THEN LET k == s % b
         IN  PySlice(res, k, Len(res)) \o PySlice(res, 0, k)
    ELSE res

gen_rhythm(b, h, s) ==
    Shifted(recurse(Rep(<<HIT>>, h), Rep(<<REST>>, b - h)), b, s)

\* gen_rhythm step by step: the wrapper sets up the groups, ...
GenCall ==
    /\ gen_pc = "args"
    /\ group1' = Rep(<<HIT>>, hits)
    /\ group2' = Rep(<<REST>>, beats - hits)
    /\ gen_pc' = "recurse"
    /\ UNCHANGED <<beats, hits, shift, r, out>>
    /\ UNCHANGED <<desc_vars, tick_vars, ring_vars, loop_vars>>

\* ... recurse() calls itself with regrouped lists, ...
RecurseCall ==
    /\ gen_pc = "recurse"
    /\ ~BaseCase(group1, group2)
    /\ group1' = RecurseArgs(group1, group2)[1]
    /\ group2' = RecurseArgs(group1, group2)[2]
    /\ UNCHANGED <<gen_pc, beats, hits, shift, r, out>>
    /\ UNCHANGED <<desc_vars, tick_vars, ring_vars, loop_vars>>

\* ... until a base case joins the groups into one string, ...
RecurseReturn ==
    /\ gen_pc = "recurse"
    /\ BaseCase(group1, group2)
    /\ r' = RecurseResult(group1, group2)
    /\ gen_pc' = "return"
    /\ UNCHANGED <<beats, hits, shift, group1, group2, out>>
    /\ UNCHANGED <<desc_vars, tick_vars, ring_vars, loop_vars>>

\* ... and the wrapper rotates the string when a shift was requested.
GenReturn ==
    /\ gen_pc = "return"
    /\ out' = Shifted(r, beats, shift)
    /\ gen_pc' = "done"
    /\ UNCHANGED <<beats, hits, shift, group1, group2, r>>
    /\ UNCHANGED <<desc_vars, tick_vars, ring_vars, loop_vars>>


\* The arguments of the call: beats in 1..16, hits and shift as the ring's
\* setters can pass them
GenInputs ==
    /\ beats \in 1..MaxBeats
    /\ hits \in 0..MaxBeats
    /\ shift \in 0..beats

GenIdle ==
    /\ gen_pc = "done"
    /\ beats = 1 /\ hits = 0 /\ shift = 0
    /\ group1 = <<>> /\ group2 = <<<<REST>>>>
    /\ r = <<REST>> /\ out = <<REST>>

-----------------------------------------------------------------------------
(* code.py: elapsed_ms *)

\* supervisor.ticks_ms() rolls over at 2**29
TicksPeriod == 536870912

\* the bit mask of elapsed_ms, 0x3fffffff
TicksMask == 1073741823

\* x & m for a mask m = 2**k - 1 and a Python int x of either sign
AndMask(x, m) == x % (m + 1)

elapsed_ms(a, b) == AndMask(b - a, TicksMask)

\* Tick values are sampled within TickWindow of either end of the period
TickWindow == 16

TickSamples ==
    (0..TickWindow) \cup ((TicksPeriod - TickWindow)..(TicksPeriod - 1))

ElapsedCall ==
    /\ e_out = -1
    /\ e_out' = elapsed_ms(e_t1, e_t2)
    /\ UNCHANGED <<e_t1, e_t2>>
    /\ UNCHANGED <<gen_vars, desc_vars, ring_vars, loop_vars>>

TickInputs ==
    /\ e_t1 \in TickSamples
    /\ e_t2 \in TickSamples
    /\ e_out = -1

TickIdle ==
    /\ e_t1 = 0 /\ e_t2 = 0 /\ e_out = 0

-----------------------------------------------------------------------------
(* code.py: class RhythmRing *)

\* RhythmRing.__init__ as main() calls it: beats=8, hits=5, shift=0, bpm=80
RingInit ==
    /\ _beats = Max(1, Min(16, 8))
    /\ _hits = Max(0, Min(_beats, 5))
    /\ _shift = Max(0, Min(_beats, 0))
    /\ _bpm = Max(30, Min(300, 80))
    /\ rhythm = gen_rhythm(8, 5, 0)
    /\ drawn = rhythm

\* @beats.setter
SetBeats(value) ==
    LET b == Max(1, Min(16, value))
    IN  /\ _beats' = b
        /\ rhythm' = gen_rhythm(b, Min(b, _hits), Min(b, _shift))
        /\ UNCHANGED <<_hits, _shift, _bpm>>

\* @hits.setter
SetHits(value) ==
    LET b == _beats
        h == Max(0, Min(b, value))
    IN  /\ _hits' = h
        /\ rhythm' = gen_rhythm(b, h, Min(b, _shift))
        /\ UNCHANGED <<_beats, _shift, _bpm>>

SetShiftWraps(value) ==
    LET b == _beats
        s == value % b
    IN  /\ _shift' = s
        /\ rhythm' = gen_rhythm(b, _hits, s)
        /\ UNCHANGED <<_beats, _hits, _bpm>>

\* @shift.setter
SetShift(value) ==
    LET b == _beats
        s == Max(0, Min(b, value))
    IN  /\ _shift' = s
        /\ rhythm' = gen_rhythm(b, _hits, s)
        /\ UNCHANGED <<_beats, _hits, _bpm>>

\* @bpm.setter
SetBpm(value) ==
    /\ _bpm' = Max(30, Min(300, value))
    /\ UNCHANGED <<_beats, _hits, _shift, rhythm>>

\* ring.refresh() draws one dot per symbol of ring.rhythm
RingRefresh == drawn' = rhythm'

-----------------------------------------------------------------------------
(* code.py: main() *)

CC_BEATS == 17
CC_HITS  == 91
CC_SHIFT == 79
CC_BPM   == 72

\* next(event_it) returned None
NoData == <<>>

\* The environment delivers at most MaxEvents packets
MaxEvents == 3

Call(op, note) == [op |-> op, note |-> note]

ControlChangeSwapped(n, v) ==
    IF n = 123 /\ v = 0
    THEN /\ sink' = Append(sink, Call("release_all", 0))
         /\ UNCHANGED ring_vars
    ELSE IF n = CC_BEATS
    THEN SetBeats(v) /\ RingRefresh /\ UNCHANGED sink
    ELSE IF n = CC_HITS
    THEN SetShift(v) /\ RingRefresh /\ UNCHANGED sink
    ELSE IF n = CC_SHIFT
    THEN SetHits(v) /\ RingRefresh /\ UNCHANGED sink
    ELSE IF n = CC_BPM
    THEN SetBpm(30 + (v * 2)) /\ UNCHANGED <<drawn, sink>>
    ELSE UNCHANGED <<ring_vars, sink>>

ControlChangeAllSoundOff(n, v) ==
    IF n = 120 /\ v = 0
    THEN /\ sink' = Append(sink, Call("release_all", 0))
         /\ UNCHANGED ring_vars
    ELSE IF n = CC_BEATS
    THEN SetBeats(v) /\ RingRefresh /\ UNCHANGED sink
    ELSE IF n = CC_HITS
    THEN SetHits(v) /\ RingRefresh /\ UNCHANGED sink
    ELSE IF n = CC_SHIFT
    THEN SetShift(v) /\ RingRefresh /\ UNCHANGED sink
    ELSE IF n = CC_BPM
    THEN SetBpm(30 + (v * 2)) /\ UNCHANGED <<drawn, sink>>
    ELSE UNCHANGED <<ring_vars, sink>>

ControlChangePanicAnyValue(n, v) ==
    IF n = 123
    THEN /\ sink' = Append(sink, Call("release_all", 0))
         /\ UNCHANGED ring_vars
    ELSE IF n = CC_BEATS
    THEN SetBeats(v) /\ RingRefresh /\ UNCHANGED sink
    ELSE IF n = CC_HITS
    THEN SetHits(v) /\ RingRefresh /\ UNCHANGED sink
    ELSE IF n = CC_SHIFT
    THEN SetShift(v) /\ RingRefresh /\ UNCHANGED sink
    ELSE IF n = CC_BPM
    THEN SetBpm(30 + (v * 2)) /\ UNCHANGED <<drawn, sink>>
    ELSE UNCHANGED <<ring_vars, sink>>

\* The body of `if cin == 0x0b:` for a packet with data[2] = n, data[3] = v
ControlChange(n, v) ==
    IF n = 123 /\ v = 0
    THEN /\ sink' = Append(sink, Call("release_all", 0))
         /\ UNCHANGED ring_vars
    ELSE IF n = CC_BEATS
    THEN SetBeats(v) /\ RingRefresh /\ UNCHANGED sink
    ELSE IF n = CC_HITS
    THEN SetHits(v) /\ RingRefresh /\ UNCHANGED sink
    ELSE IF n = CC_SHIFT
    THEN SetShift(v) /\ RingRefresh /\ UNCHANGED sink
    ELSE IF n = CC_BPM
    THEN SetBpm(30 + (v * 2)) /\ UNCHANGED <<drawn, sink>>
    ELSE UNCHANGED <<ring_vars, sink>>

DispatchChannelOne(d) ==
    /\ cin' = d[1] % 16
    /\ chan' = (d[2] % 16) + 1
    /\ num' = d[3]
    /\ val' = d[4]
    /\ IF d[1] % 16 = 11 /\ (d[2] % 16) + 1 = 1
       THEN ControlChange(d[3], d[4])
       ELSE UNCHANGED <<ring_vars, sink>>

\* Decoding and dispatch of one 4-byte packet d = data[0..3]; the DEBUG
\* branch only writes to the serial console
Dispatch(d) ==
    /\ cin' = d[1] % 16
    /\ chan' = (d[2] % 16) + 1
    /\ num' = d[3]
    /\ val' = d[4]
    /\ IF d[1] % 16 = 11
       THEN ControlChange(d[3], d[4])
       ELSE UNCHANGED <<ring_vars, sink>>

\* The head of the event loop: read the tick counter, which advanced by dt,
\* and refresh the display when more than 30 ms passed since t1
TimingCheck(dt) ==
    /\ ticks' = (ticks + dt) % TicksPeriod
    /\ t2' = ticks'
    /\ IF elapsed_ms(t1, t2') > 30
       THEN t1' = t2' /\ refreshed' = TRUE
       ELSE t1' = t1 /\ refreshed' = FALSE

\* The devices that can be attached to the bus
Devices == {1, 2}

\* None, for the locals r and dev
None == 0

\* The two except clauses of the outer loop: USBError (USBTimeoutError is a
\* subclass of it) and ValueError
CaughtUSBOnly(e) == e \in {"USBError", "USBTimeoutError"}

Caught(e) == e \in {"USBError", "USBTimeoutError", "ValueError"}

\* An exception e raised inside the try block: a handler prints it and the
\* outer loop starts over at its top (device_cache = {}, r = None); an
\* exception no handler names ends main()
Raise(e) ==
    /\ err' = e
    /\ IF Caught(e)
       THEN pc' = "scanning" /\ device_cache' = {} /\ scan_r' = None /\ trail' = <<>>
       ELSE pc' = "terminated" /\ UNCHANGED <<device_cache, scan_r, trail>>
    /\ UNCHANGED dev

\* find_usb_device returned None: nothing usable on the bus yet, sleep and
\* scan again
ScanNone ==
    /\ pc = "scanning"
    /\ err' = "none"
    /\ UNCHANGED <<pc, conn_vars, t1, t2, ticks, refreshed, cin, chan, num, val, sink, evlog>>
    /\ UNCHANGED <<gen_vars, desc_vars, tick_vars, ring_vars>>

\* Inside find_usb_device: a device c attached to the bus is picked as the
\* candidate and noted in the cache
ScanCandidate(c) ==
    /\ pc = "scanning"
    /\ pc' = "candidate"
    /\ device_cache' = device_cache \cup {c}
    /\ trail' = Append(trail, "candidate")
    /\ err' = "none"
    /\ UNCHANGED <<scan_r, dev, t1, t2, ticks, refreshed, cin, chan, num, val, sink, evlog>>
    /\ UNCHANGED <<gen_vars, desc_vars, tick_vars, ring_vars>>

\* Inside find_usb_device: fetching or parsing the candidate's descriptors
\* raised e
ScanError(e) ==
    /\ pc = "candidate"
    /\ Raise(e)
    /\ UNCHANGED <<t1, t2, ticks, refreshed, cin, chan, num, val, sink, evlog>>
    /\ UNCHANGED <<gen_vars, desc_vars, tick_vars, ring_vars>>

\* The outer loop found a device on the bus: the candidate's descriptors
\* were fetched and find_usb_device returned r
ScanFound ==
    /\ pc = "candidate"
    /\ pc' = "found"
    /\ scan_r' \in device_cache
    /\ trail' = Append(trail, "descriptors")
    /\ err' = "none"
    /\ UNCHANGED <<device_cache, dev, t1, t2, ticks, refreshed, cin, chan, num, val, sink, evlog>>
    /\ UNCHANGED <<gen_vars, desc_vars, tick_vars, ring_vars>>

ConnectOkUnclassified(dt) ==
    /\ pc \in {"candidate", "found"}
    /\ pc' = "loop"
    /\ dev' = IF pc = "found" THEN scan_r ELSE CHOOSE c \in device_cache : TRUE
    /\ scan_r' = None
    /\ device_cache' = {}
    /\ trail' = Append(trail, "classified")
    /\ err' = "none"
    /\ cin' = 0 /\ chan' = 0 /\ num' = 0 /\ val' = 0
    /\ ticks' = (ticks + dt) % TicksPeriod
    /\ t1' = ticks' /\ t2' = ticks'
    /\ UNCHANGED <<refreshed, sink, evlog>>
    /\ UNCHANGED <<gen_vars, desc_vars, tick_vars, ring_vars>>

\* MIDIInputDevice(r) accepted the device and gave an event iterator
ConnectOk(dt) ==
    /\ pc = "found"
    /\ pc' = "loop"
    /\ dev' = scan_r
    /\ scan_r' = None
    /\ device_cache' = {}
    /\ trail' = Append(trail, "classified")
    /\ err' = "none"
    /\ cin' = 0 /\ chan' = 0 /\ num' = 0 /\ val' = 0
    /\ ticks' = (ticks + dt) % TicksPeriod
    /\ t1' = ticks' /\ t2' = ticks'
    /\ UNCHANGED <<refreshed, sink, evlog>>
    /\ UNCHANGED <<gen_vars, desc_vars, tick_vars, ring_vars>>

\* MIDIInputDevice(r) raised e: the device is no MIDI device, or the
\* handshake failed
ConnectError(e) ==
    /\ pc = "found"
    /\ Raise(e)
    /\ UNCHANGED <<t1, t2, ticks, refreshed, cin, chan, num, val, sink, evlog>>
    /\ UNCHANGED <<gen_vars, desc_vars, tick_vars, ring_vars>>

\* MIDIInputDevice(r) was built but input_event_generator() returned None:
\* `continue` starts the outer loop over
ConnectFail ==
    /\ pc = "found"
    /\ pc' = "scanning"
    /\ dev' = scan_r
    /\ scan_r' = None
    /\ device_cache' = {}
    /\ trail' = <<>>
    /\ err' = "none"
    /\ UNCHANGED <<t1, t2, ticks, refreshed, cin, chan, num, val, sink, evlog>>
    /\ UNCHANGED <<gen_vars, desc_vars, tick_vars, ring_vars>>

LoopIterationStarved(dt, d) ==
    /\ pc = "loop"
    /\ err' = "none"
    /\ IF d = NoData
       THEN /\ TimingCheck(dt)
            /\ UNCHANGED <<cin, chan, num, val, sink, evlog, ring_vars>>
       ELSE /\ ticks' = (ticks + dt) % TicksPeriod
            /\ UNCHANGED <<t1, t2, refreshed>>
            /\ Len(evlog) < MaxEvents
            /\ evlog' = Append(evlog, d)
            /\ Dispatch(d)
    /\ UNCHANGED <<pc, conn_vars>>
    /\ UNCHANGED <<gen_vars, desc_vars, tick_vars>>

\* One iteration of the event loop in which next(event_it) returned d
LoopIteration(dt, d) ==
    /\ pc = "loop"
    /\ err' = "none"
    /\ TimingCheck(dt)
    /\ IF d = NoData
       THEN UNCHANGED <<cin, chan, num, val, sink, evlog, ring_vars>>
       ELSE /\ Len(evlog) < MaxEvents
            /\ evlog' = Append(evlog, d)
            /\ Dispatch(d)
    /\ UNCHANGED <<pc, conn_vars>>
    /\ UNCHANGED <<gen_vars, desc_vars, tick_vars>>

\* One iteration of the event loop in which next(event_it) raised e
LoopError(dt, e) ==
    /\ pc = "loop"
    /\ TimingCheck(dt)
    /\ Raise(e)
    /\ UNCHANGED <<cin, chan, num, val, sink, evlog>>
    /\ UNCHANGED <<gen_vars, desc_vars, tick_vars, ring_vars>>

\* main() up to the first pass of the outer loop, the tick counter at t0
MainInitAt(t0) ==
    /\ RingInit
    /\ pc = "scanning"
    /\ err = "none"
    /\ device_cache = {} /\ scan_r = None /\ dev = None /\ trail = <<>>
    /\ t1 = 0 /\ t2 = 0 /\ ticks = t0
    /\ refreshed = FALSE
    /\ cin = 0 /\ chan = 0 /\ num = 0 /\ val = 0
    /\ sink = <<>>
    /\ evlog = <<>>

MainInit == MainInitAt(0)

-----------------------------------------------------------------------------
(* sb_usb_descriptor.py *)

\* get_desc: a zeroed bytearray of the given length into which the control
\* transfer copied the bytes the device sent
get_desc(sent, length) ==
    [i \in 1..length |-> IF i <= Len(sent) THEN sent[i] ELSE 0]

\* The buffer sizes Descriptor passes to get_desc
DeviceDescLen == 18
ConfigDescLen == 256

RECURSIVE SplitLoopInclusive(_, _, _, _)
SplitLoopInclusive(buf, i, cursor, acc) ==
    IF i >= Len(buf) \/ cursor = Len(buf) THEN acc
    ELSE IF buf[cursor + 1] = 0 THEN acc
    ELSE IF cursor + buf[cursor + 1] >= Len(buf) THEN acc
    ELSE SplitLoopInclusive(buf, i + 1, cursor + buf[cursor + 1],
             Append(acc, PySlice(buf, cursor, cursor + buf[cursor + 1])))

RECURSIVE SplitLoopPastEnd(_, _, _, _)
SplitLoopPastEnd(buf, i, cursor, acc) ==
    IF i >= Len(buf) \/ cursor >= Len(buf) THEN acc
    ELSE IF buf[cursor + 1] = 0 THEN acc
    ELSE SplitLoopPastEnd(buf, i + 1, cursor + buf[cursor + 1],
             Append(acc, PySlice(buf, cursor, cursor + buf[cursor + 1])))

\* The for loop of split_desc: iteration i with the cursor and the slices
\* collected so far
RECURSIVE SplitLoop(_, _, _, _)
SplitLoop(buf, i, cursor, acc) ==
    IF i >= Len(buf) \/ cursor = Len(buf) THEN acc
    ELSE IF buf[cursor + 1] = 0 THEN acc
    ELSE IF cursor + buf[cursor + 1] > Len(buf) THEN acc
    ELSE SplitLoop(buf, i + 1, cursor + buf[cursor + 1],
             Append(acc, PySlice(buf, cursor, cursor + buf[cursor + 1])))

split_desc(buf) == SplitLoop(buf, 0, 0, <<>>)

\* ConfigDesc(d), InterfaceDesc(d), EndpointDesc(d): the fields read, or the
\* message of the ValueError
ConfigDesc(d) ==
    IF Len(d) # 9 \/ d[1] # 9 \/ d[2] # 2
    THEN [error |-> "Bad configuration descriptor"]
    ELSE [error |-> "none", bNumInterfaces |-> d[5], bConfigurationValue |-> d[6],
          bMaxPower |-> d[9]]

InterfaceDesc(d) ==
    IF Len(d) # 9 \/ d[1] # 9 \/ d[2] # 4
    THEN [error |-> "Bad interface descriptor"]
    ELSE [error |-> "none", bInterfaceNumber |-> d[3], bNumEndpoints |-> d[5],
          bInterfaceClass |-> d[6], bInterfaceSubClass |-> d[7],
          bInterfaceProtocol |-> d[8], endpoint |-> <<>>]

EndpointDesc(d) ==
    IF Len(d) < 7 \/ d[1] < 7 \/ d[2] # 5
    THEN [error |-> "Bad endpoint descriptor"]
    ELSE [error |-> "none", bEndpointAddress |-> d[3], bmAttributes |-> d[4],
          wMaxPacketSize |-> (d[6] * 256) + d[5], bInterval |-> d[7]]

\* The state of read_configuration's loop: the two lists and the exception
Raised(st, msg) == [st EXCEPT !.error = msg]

ReadSliceLenient(st, d) ==
    IF Len(d) < 2 THEN st
    ELSE IF (d[1] * 256) + d[2] = 2306
    THEN IF ConfigDesc(d).error # "none" THEN Raised(st, ConfigDesc(d).error)
         ELSE [st EXCEPT !.configs = Append(@, ConfigDesc(d))]
    ELSE IF (d[1] * 256) + d[2] = 2308
    THEN IF InterfaceDesc(d).error # "none" THEN Raised(st, InterfaceDesc(d).error)
         ELSE [st EXCEPT !.interfaces = Append(@, InterfaceDesc(d))]
    ELSE IF 7 <= d[1] /\ d[1] <= 9 /\ d[2] = 5
    THEN IF Len(st.interfaces) >= 1
         THEN IF EndpointDesc(d).error # "none" THEN Raised(st, EndpointDesc(d).error)
              ELSE [st EXCEPT !.interfaces[Len(st.interfaces)].endpoint =
                                    Append(@, EndpointDesc(d))]
         ELSE st
    ELSE st

ReadSliceFirstInterface(st, d) ==
    IF Len(d) < 2 THEN st
    ELSE IF (d[1] * 256) + d[2] = 2306
    THEN IF ConfigDesc(d).error # "none" THEN Raised(st, ConfigDesc(d).error)
         ELSE [st EXCEPT !.configs = Append(@, ConfigDesc(d))]
    ELSE IF (d[1] * 256) + d[2] = 2308
    THEN IF InterfaceDesc(d).error # "none" THEN Raised(st, InterfaceDesc(d).error)
         ELSE [st EXCEPT !.interfaces = Append(@, InterfaceDesc(d))]
    ELSE IF 7 <= d[1] /\ d[1] <= 9 /\ d[2] = 5
    THEN IF Len(st.interfaces) - 1 >= 0
         THEN IF EndpointDesc(d).error # "none" THEN Raised(st, EndpointDesc(d).error)
              ELSE [st EXCEPT !.interfaces[1].endpoint = Append(@, EndpointDesc(d))]
         ELSE Raised(st, "Found endpoint before interface")
    ELSE st

\* One pass of read_configuration's loop over the slice d.  interface_num is
\* the index of the last interface appended, len(self.interfaces) - 1
ReadSlice(st, d) ==
    IF Len(d) < 2 THEN st
    ELSE IF (d[1] * 256) + d[2] = 2306
    THEN IF ConfigDesc(d).error # "none" THEN Raised(st, ConfigDesc(d).error)
         ELSE [st EXCEPT !.configs = Append(@, ConfigDesc(d))]
    ELSE IF (d[1] * 256) + d[2] = 2308
    THEN IF InterfaceDesc(d).error # "none" THEN Raised(st, InterfaceDesc(d).error)
         ELSE [st EXCEPT !.interfaces = Append(@, InterfaceDesc(d))]
    ELSE IF 7 <= d[1] /\ d[1] <= 9 /\ d[2] = 5
    THEN IF Len(st.interfaces) - 1 >= 0
         THEN IF EndpointDesc(d).error # "none" THEN Raised(st, EndpointDesc(d).error)
              ELSE [st EXCEPT !.interfaces[Len(st.interfaces)].endpoint =
                                    Append(@, EndpointDesc(d))]
         ELSE Raised(st, "Found endpoint before interface")
    ELSE st

\* The loop of read_configuration from slice k on; an exception ends it
RECURSIVE ReadLoop(_, _, _)
ReadLoop(st, list, k) ==
    IF k > Len(list) \/ st.error # "none" THEN st
    ELSE ReadLoop(ReadSlice(st, list[k]), list, k + 1)

\* split_desc(data) called once
SplitCall ==
    /\ desc_pc = "args"
    /\ desc_pc' = "split"
    /\ slices' = split_desc(data)
    /\ UNCHANGED <<data, fields, config_desc_list, configs, interfaces, desc_err, ep_vars>>
    /\ UNCHANGED <<gen_vars, tick_vars, ring_vars, loop_vars>>

\* No field assigned yet
NoFields == <<>>

\* Descriptor(device): the device sent the bytes `data` as its device
\* descriptor
DescriptorInit ==
    /\ desc_pc = "args"
    /\ desc_pc' = "init"
    /\ LET d == get_desc(data, DeviceDescLen) IN
       IF d[1] # 18
       THEN /\ desc_err' = "Bad Device Descriptor Length"
            /\ UNCHANGED <<fields, config_desc_list, configs, interfaces>>
       ELSE /\ fields' = [bcdUSB |-> (d[4] * 256) + d[3],
                          bDeviceClass |-> d[5], bDeviceSubClass |-> d[6],
                          bDeviceProtocol |-> d[7], bMaxPacketSize0 |-> d[8],
                          idVendor |-> (d[10] * 256) + d[9],
                          idProduct |-> (d[12] * 256) + d[11],
                          bNumConfigurations |-> d[18]]
            /\ config_desc_list' = <<>> /\ configs' = <<>> /\ interfaces' = <<>>
            /\ UNCHANGED desc_err
    /\ UNCHANGED <<data, slices, ep_vars>>
    /\ UNCHANGED <<gen_vars, tick_vars, ring_vars, loop_vars>>

\* read_configuration(device): the device sent the bytes `data` as its
\* configuration descriptor
ReadConfiguration ==
    /\ desc_pc = "args"
    /\ desc_pc' = "read"
    /\ LET list == split_desc(get_desc(data, ConfigDescLen)) IN
       IF Len(list) = 0
       THEN /\ desc_err' = "Empty Configuration Descriptor"
            /\ UNCHANGED <<config_desc_list, configs, interfaces>>
       ELSE LET st == ReadLoop([configs |-> <<>>, interfaces |-> <<>>, error |-> "none"],
                               list, 1) IN
            /\ config_desc_list' = list
            /\ configs' = st.configs
            /\ interfaces' = st.interfaces
            /\ desc_err' = st.error
    /\ UNCHANGED <<data, slices, fields, ep_vars>>
    /\ UNCHANGED <<gen_vars, tick_vars, ring_vars, loop_vars>>

\* x & bit for a single bit and x >= 0
AndBit(x, bit) == ((x \div bit) % 2) * bit

\* The inner loop of input_endpoints (input = TRUE) and output_endpoints
\* (input = FALSE): the endpoints of eps whose address has bit 0x80 set, or
\* clear
DirectionFilter(eps, input) ==
    SelectSeq(eps, LAMBDA e : (AndBit(e.bEndpointAddress, 128) # 0) = input)

\* The outer loop: every interface whose bInterfaceNumber is n, in order
RECURSIVE EndpointLoop(_, _, _)
EndpointLoop(ifs, n, input) ==
    IF ifs = <<>> THEN <<>>
    ELSE (IF Head(ifs).bInterfaceNumber = n
          THEN DirectionFilter(Head(ifs).endpoint, input) ELSE <<>>)
             \o EndpointLoop(Tail(ifs), n, input)

input_endpointsByPosition(ifs, n) ==
    IF n + 1 \in DOMAIN ifs THEN DirectionFilter(ifs[n + 1].endpoint, TRUE) ELSE <<>>

input_endpoints(ifs, n)  == EndpointLoop(ifs, n, TRUE)
output_endpoints(ifs, n) == EndpointLoop(ifs, n, FALSE)

\* input_endpoints(n) and output_endpoints(n) called on the parsed tree
EndpointsCall(n) ==
    /\ desc_pc = "read"
    /\ desc_pc' = "endpoints"
    /\ ep_arg' = n
    /\ in_eps' = input_endpoints(interfaces, n)
    /\ out_eps' = output_endpoints(interfaces, n)
    /\ UNCHANGED <<data, slices, fields, config_desc_list, configs, interfaces, desc_err>>
    /\ UNCHANGED <<gen_vars, tick_vars, ring_vars, loop_vars>>

\* No call of the descriptor parser
DescIdle ==
    /\ desc_pc = "idle" /\ data = <<>> /\ slices = <<>> /\ fields = NoFields
    /\ config_desc_list = <<>> /\ configs = <<>> /\ interfaces = <<>>
    /\ desc_err = "none"
    /\ ep_arg = 0 /\ in_eps = <<>> /\ out_eps = <<>>

\* A call of the descriptor parser about to be made on the bytes of `bufs`
DescInputs(bufs) ==
    /\ desc_pc = "args" /\ data \in bufs /\ slices = <<>> /\ fields = NoFields
    /\ config_desc_list = <<>> /\ configs = <<>> /\ interfaces = <<>>
    /\ desc_err = "none"
    /\ ep_arg = 0 /\ in_eps = <<>> /\ out_eps = <<>>

-----------------------------------------------------------------------------
(* Input alphabets *)

\* Knob positions sent as data2 of a control change
CCVals == {0, 3, 12, 127}

\* Control changes of the four rhythm knobs, cable 0, channel 1
RingPackets ==
    {<<11, 176, n, v>> : n \in {CC_BEATS, CC_HITS, CC_SHIFT, CC_BPM}, v \in CCVals}

NoteVals == {20, 21, 60, 108, 109, 127}

\* Note on (0x9) and note off (0x8) packets
NotePackets ==
    {<<9, 144, n, 100>> : n \in NoteVals} \cup {<<8, 128, n, 0>> : n \in NoteVals}

\* All notes off (CC 123), an unassigned control change, poly aftertouch
OtherPackets == {<<11, 176, 123, 0>>, <<11, 176, 1, 64>>, <<10, 160, 60, 50>>}

\* Control changes: the rhythm knobs at three positions, all notes off
\* (CC 123 value 0), CC 123 with another value, an unassigned control change
CCPackets ==
    {<<11, 176, n, v>> : n \in {CC_BEATS, CC_HITS, CC_SHIFT, CC_BPM}, v \in {0, 3, 127}}
        \cup {<<11, 176, 123, 0>>, <<11, 176, 123, 1>>, <<11, 176, 1, 64>>}

\* Packets of every kind on cable 0, channel 1: the four knobs, all notes
\* off, CC 123 with value 1, an unassigned control change, note on, poly
\* aftertouch, pitch bend
BasePackets ==
    {<<11, 176, CC_BEATS, 3>>, <<11, 176, CC_HITS, 127>>, <<11, 176, CC_SHIFT, 1>>,
     <<11, 176, CC_BPM, 10>>, <<11, 176, 123, 0>>, <<11, 176, 123, 1>>,
     <<11, 176, 1, 64>>, <<9, 144, 60, 100>>, <<10, 160, 60, 50>>, <<14, 224, 0, 64>>}

\* The packet d as it arrives on cable 1, channel 2
OnCableOne(d) == <<d[1] + 16, d[2] + 1, d[3], d[4]>>

DispatchPackets == BasePackets \cup {OnCableOne(d) : d \in BasePackets}

\* Ticks that pass between two readings of the tick counter
TickSteps == {0, 15, 31}

\* The tick counter is followed this far on either side of its rollover
TickHorizon == 48

InHorizon(t) == t >= TicksPeriod - TickHorizon \/ t <= TickHorizon

\* The steps that keep the tick counter t inside the horizon
StepsAt(t) == {dt \in TickSteps : InHorizon((t + dt) % TicksPeriod)}

\* The packet polled while the timing is observed: a note on
TimingPackets == {<<9, 144, 60, 100>>}

\* Buffers for split_desc: every byte string of up to MaxBuf sampled bytes
MaxBuf == 5
ByteSamples == {0, 1, 2, 3, 255}
RECURSIVE Strings(_, _)
Strings(alphabet, n) ==
    IF n = 0 THEN {<<>>}
    ELSE Strings(alphabet, n - 1)
             \cup {Append(w, b) : w \in {x \in Strings(alphabet, n - 1) : Len(x) = n - 1},
                                  b \in alphabet}
SmallBuffers == Strings(ByteSamples, MaxBuf)

\* A descriptor of n bytes with the given type byte, the rest filled
Desc(n, type, fill) == <<n, type>> \o [i \in 1..(n - 2) |-> fill]

\* Three descriptors of declared lengths 9, 9, 7 and one trailing byte
TripleBuffers ==
    {Desc(9, 2, f) \o Desc(9, 4, f) \o Desc(7, 5, f) \o <<g>> : f \in {0, 255}, g \in 0..255}

\* Device descriptors as a device may send them: length byte, type byte,
\* bcdUSB, class, subclass, protocol, packet size, ids, strings, count
DeviceBuffers ==
    {<<len, type, 0, 2, class, sub, 0, 64, 52, 18, 120, 86, 0, 1, 1, 2, 3, nconf>> :
        len \in {0, 9, 18}, type \in {0, 1, 2}, class \in {0, 255}, sub \in {0, 1},
        nconf \in {1, 2}}

\* The descriptors a configuration blob is made of: configuration, two
\* interfaces, endpoints of 7 and 9 bytes (IN and OUT), a class-specific
\* descriptor, a one-byte descriptor, an endpoint type with a length of 6
ConfigParts ==
    { <<9, 2, 0, 0, 1, 1, 0, 128, 50>>,
      <<9, 4, 0, 0, 2, 1, 3, 0, 0>>,
      <<9, 4, 1, 0, 2, 1, 3, 0, 0>>,
      <<7, 5, 129, 2, 64, 0, 0>>,
      <<9, 5, 1, 2, 64, 0, 0, 0, 0>>,
      <<7, 36, 1, 0, 1, 7, 0>>,
      <<1>>,
      <<6, 5, 2, 2, 64, 0>> }

\* The interface numbers looked up: the two in ConfigParts and one in none
InterfaceNumbers == {0, 1, 2}

\* Blobs of up to MaxParts descriptors
MaxParts == 4
ConfigBlobs == {Join(w) : w \in Strings(ConfigParts, MaxParts)}

\* The exceptions the descriptor fetch, the MIDIInputDevice constructor and
\* the event iterator raise
ScanErrors    == {"USBError", "USBTimeoutError", "ValueError"}
ConnectErrors == {"USBError", "ValueError"}
LoopErrors    == {"USBError", "USBTimeoutError"}

-----------------------------------------------------------------------------
(* Specifications *)

\* gen_rhythm called once with every argument triple
InitGen == GenInputs /\ gen_pc = "args" /\ group1 = <<>> /\ group2 = <<>>
              /\ r = <<>> /\ out = <<>> /\ TickIdle /\ MainInit /\ DescIdle
NextGen == GenCall \/ RecurseCall \/ RecurseReturn \/ GenReturn
SpecGen == InitGen /\ [][NextGen]_vars

\* The same, the interpreter going on with the call as long as it can
SpecGenLive == SpecGen /\ WF_vars(NextGen)

\* elapsed_ms called once with every pair of sampled tick values
InitTicks == TickInputs /\ GenIdle /\ MainInit /\ DescIdle
NextTicks == ElapsedCall
SpecTicks == InitTicks /\ [][NextTicks]_vars

\* The steps of main() outside the polling of events: scan, connect, and
\* every place an exception can be raised
Connection(dt) ==
    \/ ScanNone
    \/ \E c \in Devices : ScanCandidate(c)
    \/ \E e \in ScanErrors : ScanError(e)
    \/ ScanFound
    \/ ConnectOk(dt)
    \/ \E e \in ConnectErrors : ConnectError(e)
    \/ ConnectFail
    \/ \E e \in LoopErrors : LoopError(dt, e)

\* main() driven by the rhythm knobs
Init == GenIdle /\ TickIdle /\ MainInit /\ DescIdle
Next ==
    \/ Connection(0)
    \/ \E d \in RingPackets \cup {NoData} : LoopIteration(0, d)
Spec == Init /\ [][Next]_vars

\* main() driven by a keyboard: notes, all-notes-off and other messages
NextMidi ==
    \/ Connection(0)
    \/ \E d \in NotePackets \cup OtherPackets \cup {NoData} : LoopIteration(0, d)
SpecMidi == Init /\ [][NextMidi]_vars

\* main() with the tick counter running: it starts TickHorizon ticks before
\* the rollover and is followed until TickHorizon ticks after it
InitTiming == GenIdle /\ TickIdle /\ MainInitAt(TicksPeriod - TickHorizon) /\ DescIdle
NextTiming ==
    \/ \E dt \in StepsAt(ticks) : Connection(dt)
    \/ \E dt \in StepsAt(ticks), d \in TimingPackets \cup {NoData} : LoopIteration(dt, d)
SpecTiming == InitTiming /\ [][NextTiming]_vars

\* main() driven by control changes of every kind, no exception raised
NextCC ==
    \/ \E c \in Devices : ScanCandidate(c)
    \/ ScanFound
    \/ ConnectOk(0)
    \/ \E d \in CCPackets \cup {NoData} : LoopIteration(0, d)
SpecCC == Init /\ [][NextCC]_vars

\* main() driven by packets of every kind on two cables and channels, no
\* exception raised
NextDispatch ==
    \/ \E c \in Devices : ScanCandidate(c)
    \/ ScanFound
    \/ ConnectOk(0)
    \/ \E d \in DispatchPackets \cup {NoData} : LoopIteration(0, d)
SpecDispatch == Init /\ [][NextDispatch]_vars

\* split_desc called once on every sampled buffer
InitSplit == GenIdle /\ TickIdle /\ MainInit /\ DescInputs(SmallBuffers \cup TripleBuffers)
NextSplit == SplitCall
SpecSplit == InitSplit /\ [][NextSplit]_vars

\* Descriptor(device) called once on every sampled device descriptor
InitDevice == GenIdle /\ TickIdle /\ MainInit /\ DescInputs(DeviceBuffers)
NextDevice == DescriptorInit
SpecDevice == InitDevice /\ [][NextDevice]_vars

\* read_configuration called once on every sampled configuration blob
InitConfig == GenIdle /\ TickIdle /\ MainInit /\ DescInputs(ConfigBlobs)
NextConfig == ReadConfiguration
SpecConfig == InitConfig /\ [][NextConfig]_vars

\* read_configuration, then the endpoint lookups for every interface number
NextEndpoints == ReadConfiguration \/ \E n \in InterfaceNumbers : EndpointsCall(n)
SpecEndpoints == InitConfig /\ [][NextEndpoints]_vars

-----------------------------------------------------------------------------
(* Vocabulary of the properties *)

\* The number of positions of s that hold sym
Count(s, sym) == Cardinality({i \in DOMAIN s : s[i] = sym})

\* s rotated left by k positions, 0 <= k
RotL(s, k) == [i \in 1..Len(s) |-> s[((i - 1 + k) % Len(s)) + 1]]

IsRotationOf(s, t) ==
    /\ Len(s) = Len(t)
    /\ \E k \in 0..(Len(t) - 1) : s = RotL(t, k)

\* n copies of the symbol sym as one string
Uniform(sym, n) == [i \in 1..n |-> sym]

HitPositions(s) == {i \in DOMAIN s : s[i] = HIT}

\* The distance from the HIT at position p to the next HIT, cyclically
GapAfter(s, p) ==
    CHOOSE d \in 1..Len(s) :
        /\ s[((p - 1 + d) % Len(s)) + 1] = HIT
        /\ \A e \in 1..(d - 1) : s[((p - 1 + e) % Len(s)) + 1] # HIT

\* The reference Euclidean pattern E(h, b): position i (from 0) is a HIT
\* iff (i * h) mod b < h
Reference(h, b) ==
    [i \in 1..b |-> IF ((i - 1) * h) % b < h THEN HIT ELSE REST]

\* The sink calls the dispatch table asks for, for a stream of packets
RECURSIVE ExpectedNoteCalls(_)
ExpectedNoteCalls(log) ==
    IF log = <<>> THEN <<>>
    ELSE LET d == Head(log)
             rest == ExpectedNoteCalls(Tail(log))
         IN  IF d[1] % 16 = 9 /\ 21 <= d[3] /\ d[3] <= 108
             THEN <<Call("press", d[3])>> \o rest
             ELSE IF d[1] % 16 = 8 /\ 21 <= d[3] /\ d[3] <= 108
             THEN <<Call("release", d[3])>> \o rest
             ELSE rest

IsNoteCall(c) == c.op \in {"press", "release"}

GenDone == gen_pc = "done"

-----------------------------------------------------------------------------
(* Properties of gen_rhythm (SpecGen) *)

\* C1: for beats in 1..16 and hits in 0..beats, gen_rhythm(beats, hits, 0)
\* is a string of exactly `beats` symbols, each "x" or ".", of which exactly
\* `hits` are "x".
C1_LengthAndHitCount ==
    (GenDone /\ shift = 0 /\ hits <= beats) =>
        /\ Len(out) = beats
        /\ \A i \in DOMAIN out : out[i] \in {HIT, REST}
        /\ Count(out, HIT) = hits

C1_Witness ==
    /\ GenDone /\ shift = 0 /\ beats = 16 /\ hits = 7
    /\ Len(out) = 16 /\ Count(out, HIT) = 7

\* C2: for beats b in 1..16, hits in 0..b and shift s in 0..b,
\* gen_rhythm(b, h, s) is gen_rhythm(b, h, 0) rotated left by s mod b
\* positions, so that s = b gives the unshifted pattern.
C2_ShiftIsLeftRotation ==
    (GenDone /\ hits <= beats) =>
        /\ out = RotL(gen_rhythm(beats, hits, 0), shift % beats)
        /\ (shift = beats => out = gen_rhythm(beats, hits, 0))

C2_Witness ==
    /\ GenDone /\ beats = 8 /\ hits = 5 /\ shift = 3
    /\ out # gen_rhythm(8, 5, 0)
    /\ out = RotL(gen_rhythm(8, 5, 0), 3)

\* C3: for beats b in 1..16 and hits in 1..b, the cyclic gaps between
\* consecutive HIT positions of gen_rhythm(b, h, 0), the gap from the last
\* HIT around to the first included, differ by at most 1.
C3_GapsDifferByAtMostOne ==
    (GenDone /\ shift = 0 /\ 1 <= hits /\ hits <= beats) =>
        \A p, q \in HitPositions(out) :
            GapAfter(out, p) - GapAfter(out, q) <= 1

C3_Witness ==
    /\ GenDone /\ shift = 0 /\ beats = 13 /\ hits = 5
    /\ \E p, q \in HitPositions(out) : GapAfter(out, p) = 3 /\ GapAfter(out, q) = 2

\* C4: for beats b in 1..16 and hits in 0..b, gen_rhythm(b, h, 0) is a
\* rotation of the reference Euclidean pattern E(h, b); for b = 8, h = 5 it
\* is a rotation of "x.xx.xx.".
C4_RotationOfReference ==
    (GenDone /\ shift = 0 /\ hits <= beats) =>
        /\ IsRotationOf(out, Reference(hits, beats))
        /\ (beats = 8 /\ hits = 5 =>
                IsRotationOf(out, <<"x", ".", "x", "x", ".", "x", "x", ".">>))

C4_Witness ==
    /\ GenDone /\ shift = 0 /\ beats = 8 /\ hits = 5
    /\ out = <<"x", ".", "x", "x", ".", "x", ".", "x">>

\* C5: for beats b in 1..16 and every shift in 0..b, gen_rhythm(b, 0, s) is
\* b REST symbols and gen_rhythm(b, b, s) is b HIT symbols.
C5_AllRestAllHit ==
    /\ (GenDone /\ hits = 0) => out = Uniform(REST, beats)
    /\ (GenDone /\ hits = beats) => out = Uniform(HIT, beats)

C5_Witness ==
    /\ GenDone /\ beats = 16 /\ hits = 0 /\ shift = 16
    /\ out = Uniform(REST, 16)

-----------------------------------------------------------------------------
(* Properties of the RhythmRing under control changes (Spec) *)

\* C6: in every state reached from the initial ring (8, 5, 0, 80) by the
\* setters, 1 <= beats <= 16, 0 <= hits <= beats, 0 <= shift <= beats and
\* 30 <= bpm <= 300.
C6_FieldRanges ==
    /\ 1 <= _beats /\ _beats <= 16
    /\ 0 <= _hits /\ _hits <= _beats
    /\ 0 <= _shift /\ _shift <= _beats
    /\ 30 <= _bpm /\ _bpm <= 300

\* C7: after any sequence of rhythm control changes, ring.rhythm has as many
\* symbols as the beats field says and as many HIT symbols as the hits field
\* says.
C7_PatternMatchesFields ==
    /\ Len(rhythm) = _beats
    /\ Count(rhythm, HIT) = _hits

\* C8: no stale pattern is observable: the pattern drawn by ring.refresh and
\* the pattern held when the loop returns to polling are gen_rhythm of the
\* stored beats, hits and shift fields.
C8_NoStalePattern ==
    /\ rhythm = gen_rhythm(_beats, _hits, _shift)
    /\ drawn = gen_rhythm(_beats, _hits, _shift)

-----------------------------------------------------------------------------
(* Properties of the event loop's note handling (SpecMidi) *)

\* C9: the synthesizer receives exactly one press(n) per note-on packet with
\* 21 <= n <= 108 and one release(n) per note-off packet with 21 <= n <= 108,
\* in stream order, and no press or release for any other note.
C9_NoteCallsFollowStream ==
    SelectSeq(sink, IsNoteCall) = ExpectedNoteCalls(evlog)

-----------------------------------------------------------------------------
(* Properties of elapsed_ms (SpecTicks) *)

\* C10: for tick values t1, t2 in 0..2^29-1, elapsed_ms(t1, t2) is
\* (t2 - t1) mod 2^29, the true elapsed time also when the counter wrapped
\* between t1 and t2.
C10_ElapsedModuloPeriod ==
    e_out # -1 => e_out = (e_t2 - e_t1) % TicksPeriod

-----------------------------------------------------------------------------
(* Properties of the refresh timing (SpecTiming) *)

\* Ticks that truly passed between the reference tick t1 and the reading
\* taken by the step, the counter having rolled over at most once
TrueElapsed == (ticks' - t1) % TicksPeriod

\* C11: within one session of the event loop, refresh is invoked only when
\* more than 30 ticks of true elapsed time have passed since the previous
\* refresh or the entry of the loop, also across the rollover of the tick
\* counter.
C11_RefreshOnlyAfterThreshold ==
    [][(pc = "loop" /\ refreshed') => TrueElapsed > 30]_vars

\* C12: every iteration of the event loop, whether it polls an event or no
\* data, refreshes the display and resets the reference tick when more than
\* 30 ticks have passed since the last refresh, so an iteration that handles
\* an event never skips a refresh that is due.
C12_DueRefreshNotPostponed ==
    [][(pc = "loop" /\ TrueElapsed > 30) => (refreshed' /\ t1' = ticks' /\ t2' = ticks')]_vars

\* An iteration that handled a packet refreshed the display, after the
\* rollover
C12_Witness ==
    /\ pc = "loop" /\ refreshed /\ t1 = ticks
    /\ ticks = 14
    /\ evlog = <<<<9, 144, 60, 100>>, <<9, 144, 60, 100>>, <<9, 144, 60, 100>>>>

-----------------------------------------------------------------------------
(* Properties of the scan, connect, decode cycle (SpecTiming) *)

\* C13: a USBError, a timeout or a ValueError raised while scanning,
\* connecting or decoding ends the attempt and takes main() back to scanning
\* with an empty device cache; events are polled and dispatched only inside
\* the event loop, so none follows the error; main() never terminates.
C13_ErrorsRestartScan ==
    [][/\ err' # "none" => (pc' = "scanning" /\ device_cache' = {} /\ scan_r' = None)
       /\ pc' # "terminated"
       /\ pc # "loop" => (evlog' = evlog /\ sink' = sink /\ UNCHANGED ring_vars)]_vars

\* A timeout ended an event loop that had handled a packet
C13_Witness ==
    /\ err = "USBTimeoutError" /\ pc = "scanning" /\ device_cache = {}
    /\ dev # None /\ evlog # <<>> /\ refreshed

\* C14: the event loop is entered only after a scan found a candidate, its
\* descriptors were fetched and MIDIInputDevice accepted it, in this order;
\* while the loop runs no scan happens and the device is not replaced.
C14_LoopOnlyAfterClassification ==
    [][/\ pc' = "loop" => (trail' = <<"candidate", "descriptors", "classified">> /\ dev' # None)
       /\ pc = "loop" => (dev' = dev /\ device_cache' = device_cache /\ scan_r' = scan_r)]_vars

\* The event loop of device 2 handled a packet after an earlier attempt
\* had failed
C14_Witness ==
    pc = "loop" /\ dev = 2 /\ evlog # <<>> /\ device_cache = {} /\ err = "none"

-----------------------------------------------------------------------------
(* Properties of split_desc (SpecSplit) *)

\* The number of bytes the slices cover
SliceTotal == Len(Join(slices))

\* Three descriptors of declared lengths 9, 9, 7 followed by one byte
IsTriple(buf) == Len(buf) = 26 /\ buf[1] = 9 /\ buf[10] = 9 /\ buf[19] = 7

TripleSlices(buf) == <<SubSeq(buf, 1, 9), SubSeq(buf, 10, 18), SubSeq(buf, 19, 25)>>

\* C15: the slices split_desc returns start at offset 0 and follow each
\* other without gap or overlap, each is as long as its first byte says (at
\* least 1), together they are no longer than the buffer, and they end where
\* the buffer ends, or at a zero length byte, or at a declared length that
\* reaches past the end of the buffer; no byte from there on is in a slice.
C15_SlicesTileThePrefix ==
    desc_pc = "split" =>
        /\ Join(slices) = SubSeq(data, 1, SliceTotal)
        /\ \A k \in 1..Len(slices) : Len(slices[k]) >= 1 /\ slices[k][1] = Len(slices[k])
        /\ SliceTotal <= Len(data)
        /\ \/ SliceTotal = Len(data)
           \/ data[SliceTotal + 1] = 0
           \/ SliceTotal + data[SliceTotal + 1] > Len(data)

\* Two slices, then a declared length of 3 with two bytes left
C15_Witness ==
    desc_pc = "split" /\ data = <<2, 255, 1, 3, 0>> /\ slices = <<<<2, 255>>, <<1>>>>

\* C16 as stated: for descriptors of declared lengths 9, 9, 7 followed by one
\* byte of any value 0..255, split_desc returns exactly the three slices.
C16_TrailingByteIgnored ==
    (desc_pc = "split" /\ IsTriple(data)) => slices = TripleSlices(data)

\* C16 amended: for descriptors of declared lengths 9, 9, 7 followed by one
\* byte, split_desc returns exactly the three slices unless the byte is 1;
\* a trailing byte 1 is returned as a fourth slice of one byte.
C16_TrailingByteIgnoredUnlessOne ==
    (desc_pc = "split" /\ IsTriple(data)) =>
        slices = IF data[26] = 1 THEN Append(TripleSlices(data), <<1>>)
                                 ELSE TripleSlices(data)

\* The trailing byte 1 came back as a fourth slice
C16_Witness ==
    desc_pc = "split" /\ IsTriple(data) /\ data[26] = 1 /\ Len(slices) = 4

-----------------------------------------------------------------------------
(* Properties of read_configuration (SpecConfig) *)

IsEndpointSlice(d)  == Len(d) >= 2 /\ 7 <= d[1] /\ d[1] <= 9 /\ d[2] = 5
IsInterfaceSlice(d) == Len(d) >= 2 /\ d[1] = 9 /\ d[2] = 4

\* An endpoint slice comes before any interface slice
EndpointFirst(list) ==
    \E k \in 1..Len(list) :
        /\ IsEndpointSlice(list[k])
        /\ \A j \in 1..(k - 1) : ~IsInterfaceSlice(list[j])

\* C17: read_configuration on a blob in which an endpoint slice comes before
\* any interface slice raises the ValueError "Found endpoint before
\* interface" and attaches the endpoint to no interface.
C17_EndpointBeforeInterfaceFails ==
    (desc_pc = "read" /\ EndpointFirst(config_desc_list)) =>
        /\ desc_err = "Found endpoint before interface"
        /\ \A i \in 1..Len(interfaces) : interfaces[i].endpoint = <<>>

\* Configuration, endpoint, interface: the configuration was parsed, then
\* the endpoint raised
C17_Witness ==
    /\ desc_pc = "read"
    /\ data = <<9, 2, 0, 0, 1, 1, 0, 128, 50>> \o <<7, 5, 129, 2, 64, 0, 0>>
                  \o <<9, 4, 0, 0, 2, 1, 3, 0, 0>>
    /\ desc_err = "Found endpoint before interface"
    /\ Len(configs) = 1 /\ interfaces = <<>>

\* The elements of the set S of numbers 1..n as an ascending sequence
RECURSIVE Ascending(_, _)
Ascending(S, n) ==
    IF n = 0 THEN <<>>
    ELSE Ascending(S, n - 1) \o (IF n \in S THEN <<n>> ELSE <<>>)

\* The interface record holds the bytes of the interface slice d
IsInterfaceOf(i, d) ==
    /\ i.bInterfaceNumber = d[3] /\ i.bNumEndpoints = d[5]
    /\ i.bInterfaceClass = d[6] /\ i.bInterfaceSubClass = d[7]
    /\ i.bInterfaceProtocol = d[8]

\* The endpoint record holds the bytes of the endpoint slice d
IsEndpointOf(e, d) ==
    /\ e.bEndpointAddress = d[3] /\ e.bmAttributes = d[4]
    /\ e.wMaxPacketSize = d[5] + (256 * d[6]) /\ e.bInterval = d[7]

\* C23: after read_configuration succeeded, self.interfaces holds exactly
\* the interface slices (tag 0x0904) in blob order, and each interface's
\* endpoint list holds exactly the endpoint slices (type 0x05, length 7..9)
\* between its slice and the next interface slice, in blob order; no other
\* slice adds to either list.
C23_TreeMirrorsBlob ==
    (desc_pc = "read" /\ desc_err = "none") =>
        LET list == config_desc_list
            ifs == Ascending({j \in 1..Len(list) : IsInterfaceSlice(list[j])}, Len(list))
            Last(k) == IF k < Len(ifs) THEN ifs[k + 1] - 1 ELSE Len(list)
            eps(k) == Ascending({j \in (ifs[k] + 1)..Last(k) : IsEndpointSlice(list[j])},
                                Len(list))
        IN  /\ Len(interfaces) = Len(ifs)
            /\ \A k \in 1..Len(ifs) :
                  /\ IsInterfaceOf(interfaces[k], list[ifs[k]])
                  /\ Len(interfaces[k].endpoint) = Len(eps(k))
                  /\ \A i \in 1..Len(eps(k)) :
                        IsEndpointOf(interfaces[k].endpoint[i], list[eps(k)[i]])

\* Interface 1 with an IN endpoint, then interface 0 with an OUT endpoint
C23_Witness ==
    /\ desc_pc = "read" /\ desc_err = "none"
    /\ Len(config_desc_list) = 4 /\ Len(interfaces) = 2
    /\ interfaces[1].bInterfaceNumber = 1 /\ Len(interfaces[1].endpoint) = 1
    /\ interfaces[1].endpoint[1].bEndpointAddress = 129
    /\ interfaces[2].bInterfaceNumber = 0 /\ Len(interfaces[2].endpoint) = 1
    /\ interfaces[2].endpoint[1].bEndpointAddress = 1

-----------------------------------------------------------------------------
(* Properties of input_endpoints and output_endpoints (SpecEndpoints) *)

\* The endpoints of every interface whose bInterfaceNumber is n, in order
EndpointsOfNumber(n) ==
    Join([k \in 1..Len(interfaces) |->
            IF interfaces[k].bInterfaceNumber = n THEN interfaces[k].endpoint ELSE <<>>])

-----------------------------------------------------------------------------
(* Properties of Descriptor(device) (SpecDevice) *)

\* C18: Descriptor(device) raises a parse error and reads no field whenever
\* the device descriptor is not 18 bytes long or its length byte and type
\* byte are not 18 and 0x01.
C18_BadSignatureIsParseError ==
    (desc_pc = "init" /\ ~(Len(data) = 18 /\ data[1] = 18 /\ data[2] = 1)) =>
        (desc_err # "none" /\ fields = NoFields)

-----------------------------------------------------------------------------
(* Properties of the control change dispatch (SpecCC) *)

\* The step polled a packet; Polled is that packet
IsPoll == Len(evlog') = Len(evlog) + 1
Polled == evlog'[Len(evlog')]
IsControlChange(d) == d[1] % 16 = 11

Clip(v, lo, hi) == Max(lo, Min(hi, v))

\* The pattern was generated anew for the new fields (hits and shift as
\* stored, or cut to beats) and drawn
Regenerated ==
    /\ \E h \in {_hits', Min(_beats', _hits')}, s \in {_shift', Min(_beats', _shift')} :
           rhythm' = gen_rhythm(_beats', h, s)
    /\ drawn' = rhythm'

\* C19: a control change for a rhythm knob updates exactly its field: CC 17
\* sets beats to clip(value, 1, 16), CC 91 sets hits to clip(value, 0, beats),
\* CC 79 sets shift to clip(value, 0, beats), CC 72 sets bpm to 30 + 2 * value
\* (within 30..284); the other fields keep their values; beats, hits and
\* shift regenerate the pattern, bpm leaves it unchanged.
C19_RhythmControlChange ==
    [][(IsPoll /\ IsControlChange(Polled)) =>
          /\ Polled[3] = CC_BEATS =>
                /\ _beats' = Clip(Polled[4], 1, 16)
                /\ UNCHANGED <<_hits, _shift, _bpm>>
                /\ Regenerated
          /\ Polled[3] = CC_HITS =>
                /\ _hits' = Clip(Polled[4], 0, _beats)
                /\ UNCHANGED <<_beats, _shift, _bpm>>
                /\ Regenerated
          /\ Polled[3] = CC_SHIFT =>
                /\ _shift' = Clip(Polled[4], 0, _beats)
                /\ UNCHANGED <<_beats, _hits, _bpm>>
                /\ Regenerated
          /\ Polled[3] = CC_BPM =>
                /\ _bpm' = 30 + (2 * Polled[4])
                /\ _bpm' \in 30..284
                /\ UNCHANGED <<_beats, _hits, _shift, rhythm, drawn>>]_vars

\* CC 17 value 3, then CC 91 value 127: hits was cut to the 3 beats
C19_Witness ==
    /\ evlog = <<<<11, 176, CC_BEATS, 3>>, <<11, 176, CC_HITS, 127>>>>
    /\ _beats = 3 /\ _hits = 3 /\ rhythm = <<HIT, HIT, HIT>> /\ drawn = rhythm

\* C20: a control change 123 with value 0 makes exactly one release-all call
\* and changes neither a rhythm field nor the pattern; no packet both makes
\* a synthesizer call and changes the ring, or makes two calls.
C20_PanicOnly ==
    [][IsPoll =>
          /\ (IsControlChange(Polled) /\ Polled[3] = 123 /\ Polled[4] = 0) =>
                /\ sink' = Append(sink, Call("release_all", 0))
                /\ UNCHANGED ring_vars
          /\ Len(sink') <= Len(sink) + 1
          /\ sink' # sink => UNCHANGED ring_vars]_vars

\* All notes off after the beats knob: one call, the ring as the knob left it
C20_Witness ==
    /\ evlog = <<<<11, 176, CC_BEATS, 3>>, <<11, 176, 123, 0>>>>
    /\ sink = <<Call("release_all", 0)>>
    /\ _beats = 3 /\ Len(rhythm) = 3

-----------------------------------------------------------------------------
(* Properties of the dispatch of any packet (SpecDispatch) *)

\* A packet that matches no row of the dispatch: its code index is none of
\* 0x8, 0x9, 0xB, or it is a control change other than 123, 17, 91, 79, 72,
\* or control change 123 with a value other than 0
Ignored(d) ==
    \/ d[1] % 16 \notin {8, 9, 11}
    \/ d[1] % 16 = 11 /\ d[3] \notin {123, CC_BEATS, CC_HITS, CC_SHIFT, CC_BPM}
    \/ d[1] % 16 = 11 /\ d[3] = 123 /\ d[4] # 0

\* C21: a packet that matches no row of the dispatch changes neither a
\* rhythm field nor the pattern, makes no synthesizer call, and the event
\* loop goes on with the same device.
C21_IgnoredPacketsNoEffect ==
    [][(IsPoll /\ Ignored(Polled)) =>
          /\ UNCHANGED <<ring_vars, sink>>
          /\ pc' = "loop" /\ dev' = dev /\ err' = "none"]_vars

\* After the beats knob: CC 123 with value 1 on cable 1, then a pitch bend
C21_Witness ==
    /\ evlog = <<<<11, 176, CC_BEATS, 3>>, <<27, 177, 123, 1>>, <<14, 224, 0, 64>>>>
    /\ _beats = 3 /\ sink = <<>> /\ pc = "loop"

\* A packet without cable number and channel: code index, data1, data2
Stripped(d) == <<d[1] % 16, d[3], d[4]>>

StrippedLog(log) == [i \in 1..Len(log) |-> Stripped(log[i])]

\* The ring and the synthesizer calls as a record
Outcome(b, h, s, bpm, rh, dr, calls) ==
    [b |-> b, h |-> h, s |-> s, bpm |-> bpm, rh |-> rh, dr |-> dr, calls |-> calls]

\* A function of stripped packets only: the outcome after one more packet
AfterStripped(o, k) ==
    IF k[1] # 11 THEN o
    ELSE IF k[2] = 123 /\ k[3] = 0
    THEN [o EXCEPT !.calls = Append(@, Call("release_all", 0))]
    ELSE IF k[2] = CC_BEATS
    THEN LET nb == Clip(k[3], 1, 16)
             nr == gen_rhythm(nb, Min(nb, o.h), Min(nb, o.s))
         IN  [o EXCEPT !.b = nb, !.rh = nr, !.dr = nr]
    ELSE IF k[2] = CC_HITS
    THEN LET nh == Clip(k[3], 0, o.b)
             nr == gen_rhythm(o.b, nh, Min(o.b, o.s))
         IN  [o EXCEPT !.h = nh, !.rh = nr, !.dr = nr]
    ELSE IF k[2] = CC_SHIFT
    THEN LET ns == Clip(k[3], 0, o.b)
             nr == gen_rhythm(o.b, o.h, ns)
         IN  [o EXCEPT !.s = ns, !.rh = nr, !.dr = nr]
    ELSE IF k[2] = CC_BPM
    THEN [o EXCEPT !.bpm = Clip(30 + (2 * k[3]), 30, 300)]
    ELSE o

RECURSIVE AfterStrippedLog(_, _)
AfterStrippedLog(o, klog) ==
    IF klog = <<>> THEN o
    ELSE AfterStrippedLog(AfterStripped(o, Head(klog)), Tail(klog))

\* C22: the synthesizer calls, the rhythm fields and the pattern are a
\* function of the packet stream with cable number and channel stripped off:
\* two streams that differ only in cable or channel give the same calls and
\* the same ring.
C22_CableAndChannelIgnored ==
    Outcome(_beats, _hits, _shift, _bpm, rhythm, drawn, sink)
        = AfterStrippedLog(Outcome(8, 5, 0, 80, gen_rhythm(8, 5, 0), gen_rhythm(8, 5, 0), <<>>),
                           StrippedLog(evlog))

\* The beats knob and all notes off, both on cable 1, channel 2
C22_Witness ==
    /\ evlog = <<<<27, 177, CC_BEATS, 3>>, <<27, 177, 123, 0>>>>
    /\ _beats = 3 /\ Len(rhythm) = 3 /\ sink = <<Call("release_all", 0)>>

-----------------------------------------------------------------------------
(* Properties of the shift knob (SpecCC) *)

\* C25: after a control change of the shift knob with value v the stored
\* shift is min(v, beats), and the pattern is gen_rhythm(beats, hits, 0)
\* rotated left by min(v, beats) mod beats; every v >= beats gives the
\* unshifted pattern.
C25_ShiftSaturates ==
    [][(IsPoll /\ IsControlChange(Polled) /\ Polled[3] = CC_SHIFT) =>
          /\ _shift' = Min(Polled[4], _beats)
          /\ rhythm' = RotL(gen_rhythm(_beats, _hits, 0), Min(Polled[4], _beats) % _beats)
          /\ Polled[4] >= _beats => rhythm' = gen_rhythm(_beats, _hits, 0)]_vars

\* Shift 3 of 8 beats, then shift 127: stored as 8, the pattern unshifted
C25_Witness ==
    /\ evlog = <<<<11, 176, CC_SHIFT, 3>>, <<11, 176, CC_SHIFT, 127>>>>
    /\ _beats = 8 /\ _hits = 5 /\ _shift = 8
    /\ rhythm = gen_rhythm(8, 5, 0)
    /\ rhythm # RotL(gen_rhythm(8, 5, 0), 3)

-----------------------------------------------------------------------------
(* Termination of gen_rhythm (SpecGenLive) *)

\* C26: for beats in 1..16 and every hits the setters can pass, each
\* recursive call of recurse() has fewer groups in group1 and group2
\* together than its caller, recurse() returns only when one group is empty
\* or both are equally long, and gen_rhythm returns.
C26_RecursionTerminates ==
    /\ [][(gen_pc = "recurse" /\ gen_pc' = "recurse") =>
            Len(group1') + Len(group2') < Len(group1) + Len(group2)]_vars
    /\ [][(gen_pc = "recurse" /\ gen_pc' = "return") =>
            (Len(group1) = 0 \/ Len(group2) = 0 \/ Len(group1) = Len(group2))]_vars
    /\ <>(gen_pc = "done")

\* gen_rhythm(13, 5, 0) returned after three recursive calls
C26_Witness ==
    /\ gen_pc = "done" /\ beats = 13 /\ hits = 5 /\ shift = 0
    /\ Len(group1) = 1 /\ Len(group2) = 1 /\ Len(out) = 13

=============================================================================
